---- MODULE Spec2Model ----
(***************************************************************************)
(* Smart Band Edge Service: the startup gate (database_configuration.py    *)
(* and main.py lifespan), the session boundary get_db_session, the HTTP    *)
(* endpoints of heart_rate_controller.py and the connection pool that      *)
(* pool_config sizes.                                                      *)
(*                                                                         *)
(* The command handler, the query handler, the repository, the classifier  *)
(* and the dependency wiring (dependency_injection.py) are not among the   *)
(* source files; they are modelled from the written specification and      *)
(* their definitions say so.                                               *)
(***************************************************************************)
EXTENDS Integers, Sequences, FiniteSets, TLC

\* ------------------------------------------------------------------ bounds

\* Requests that may be in flight at once.
NReq == 2
\* Rows the store may hold before record requests can only fail.
MaxReadings == 2
\* A history limit smaller than the number of rows a device can have.
SmallLimit == 1
\* Requests followed one by one through the connection pool.
NWorkers == 2
\* Seconds of waiting one step of the pool's clock stands for.
TickSeconds == 15

\* ------------------------------------------------------- program constants

\* get_heart_rate_history(..., limit: int = 10, ...)
default_limit == 10
\* pool_config["pool_timeout"], the same in both configurations
pool_timeout == 30

Slots == 1..NReq
Workers == 1..NWorkers
Devices == {1, 999}

VARIABLES
    DATABASE_URL,   \* os.getenv("DATABASE_URL")
    phase,          \* "import" | "imported" | "serving" | "aborted" | "stopped"
    startupError,   \* the error that aborted startup, or "none"
    closeDbRan,     \* close_db has run
    everServed,     \* a request was accepted at some point
    store,          \* the committed rows of the readings table, oldest first
    req,            \* per slot: the request in flight and its unit of work
    qsize,          \* QueuePool: idle connections kept in the pool
    overflow,       \* QueuePool: connections created minus pool_size
    conn,           \* per followed request: "idle" | "waiting" | "holding" | "timeout"
    waited          \* per followed request: seconds waited for a connection

vars == <<DATABASE_URL, phase, startupError, closeDbRan, everServed, store, req,
          qsize, overflow, conn, waited>>
appVars == <<DATABASE_URL, phase, startupError, closeDbRan, everServed, store, req>>
poolVars == <<qsize, overflow, conn, waited>>

\* ------------------------------------------------------- the environment

\* A connection string is the sequence of its parts: scheme prefix, host,
\* port part, database.  set = FALSE is an unset variable (os.getenv -> None).
Url(parts) == [set |-> TRUE, parts |-> parts]
UnsetUrl == [set |-> FALSE, parts |-> <<>>]
PoolerUrl == Url(<<"postgresql+psycopg://", "host", ":6543/", "db">>)
DirectUrl == Url(<<"postgresql+psycopg://", "host", ":5432/", "db">>)
Urls == { UnsetUrl,
          Url(<<>>),
          Url(<<"postgresql://", "host", ":5432/", "db">>),
          Url(<<"postgresql+psycopg2://", "host", ":6543/", "db">>),
          PoolerUrl,
          DirectUrl }

\* `not DATABASE_URL`: None and the empty string are both false.
UrlMissing(u) == ~u.set \/ u.parts = <<>>

\* DATABASE_URL.startswith("postgresql+psycopg://")
UrlHasAsyncDriver(u) == Len(u.parts) >= 1 /\ u.parts[1] = "postgresql+psycopg://"

\* The two raises of the module body: the error importing the module ends in.
ConfigError(u) ==
    IF UrlMissing(u) THEN "ValueError"
    ELSE IF ~UrlHasAsyncDriver(u) THEN "ValueError"
    ELSE "none"

\* is_pooler = ":6543/" in DATABASE_URL
is_pooler(u) == \E i \in 1..Len(u.parts) : u.parts[i] = ":6543/"

\* pool_config with the two configurations exchanged.
pool_config_exchanged(u) ==
    IF is_pooler(u)
    THEN [pool_size |-> 5, max_overflow |-> 10, pool_recycle |-> 1800,
          pool_timeout |-> pool_timeout, pool_pre_ping |-> TRUE]
    ELSE [pool_size |-> 3, max_overflow |-> 5, pool_recycle |-> 300,
          pool_timeout |-> pool_timeout, pool_pre_ping |-> TRUE]

\* pool_config
pool_config(u) ==
    IF is_pooler(u)
    THEN [pool_size |-> 3, max_overflow |-> 5, pool_recycle |-> 300,
          pool_timeout |-> pool_timeout, pool_pre_ping |-> TRUE]
    ELSE [pool_size |-> 5, max_overflow |-> 10, pool_recycle |-> 1800,
          pool_timeout |-> pool_timeout, pool_pre_ping |-> TRUE]

\* ------------------------------------------------------------- int(pulse)

DigitChars == {"0", "1", "2", "5", "7"}
DigitValue(c) ==
    CASE c = "0" -> 0 [] c = "1" -> 1 [] c = "2" -> 2 [] c = "5" -> 5
      [] c = "7" -> 7 [] OTHER -> 0

RECURSIVE StripLeft(_)
StripLeft(s) == IF s # <<>> /\ Head(s) = " " THEN StripLeft(Tail(s)) ELSE s
RECURSIVE StripRight(_)
StripRight(s) ==
    IF s # <<>> /\ s[Len(s)] = " " THEN StripRight(SubSeq(s, 1, Len(s) - 1)) ELSE s
Strip(s) == StripLeft(StripRight(s))

\* The literal without its sign.
Unsigned(t) == IF t # <<>> /\ Head(t) \in {"+", "-"} THEN Tail(t) ELSE t

\* Python's int(str): surrounding white space, one optional sign, then digits,
\* single underscores allowed between digits; anything else is a ValueError.
IsIntLiteral(s) ==
    LET b == Unsigned(Strip(s)) IN
        /\ b # <<>>
        /\ b[1] \in DigitChars
        /\ b[Len(b)] \in DigitChars
        /\ \A i \in 1..Len(b) : b[i] \in DigitChars \cup {"_"}
        /\ \A i \in 1..(Len(b) - 1) : ~(b[i] = "_" /\ b[i + 1] = "_")

RECURSIVE DigitsValue(_, _)
DigitsValue(b, acc) ==
    IF b = <<>> THEN acc
    ELSE IF Head(b) = "_" THEN DigitsValue(Tail(b), acc)
    ELSE DigitsValue(Tail(b), 10 * acc + DigitValue(Head(b)))

LiteralValue(s) ==
    LET t == Strip(s) IN
        IF t # <<>> /\ Head(t) = "-" THEN 0 - DigitsValue(Unsigned(t), 0)
        ELSE DigitsValue(Unsigned(t), 0)

\* A pulse as the request carries it: a JSON integer or a string.
IntPulse(v) == [kind |-> "int", v |-> v, s |-> <<>>]
StrPulse(s) == [kind |-> "str", v |-> 0, s |-> s]
NoPulse == IntPulse(0)

\* int(request.pulse): the integer, or ValueError.
IntAcceptsAnything(p) == [ok |-> TRUE, v |-> IF p.kind = "int" THEN p.v ELSE 0]
ToInt(p) ==
    IF p.kind = "int" THEN [ok |-> TRUE, v |-> p.v]
    ELSE IF IsIntLiteral(p.s) THEN [ok |-> TRUE, v |-> LiteralValue(p.s)]
    ELSE [ok |-> FALSE, v |-> 0]

NumericPulses == { IntPulse(72), StrPulse(<<" ", "1", "5", "0">>), StrPulse(<<"-", "5">>) }
NonNumericPulses == { StrPulse(<<"a", "b", "c">>), StrPulse(<<"7", ".", "5">>),
                      StrPulse(<<>>), StrPulse(<<"1", "_">>) }
Pulses == NumericPulses \cup NonNumericPulses

\* ------------------------------------------- entity, classifier, repository

\* classify(pulse): the status band of a pulse.
classify(p) ==
    IF p < 60 THEN "LOW"
    ELSE IF p <= 100 THEN "NORMAL"
    ELSE IF p <= 140 THEN "ELEVATED"
    ELSE "HIGH"

\* repository.save: the store with the new row, whose id and timestamp the
\* store assigns (ids count up from 1; the timestamp is the commit's instant).
save(rows, smart_band_id, pulse) ==
    Append(rows, [id |-> Len(rows) + 1, smart_band_id |-> smart_band_id,
                  pulse |-> pulse, status |-> classify(pulse),
                  timestamp |-> Len(rows) + 1])

NoReading == [id |-> 0, smart_band_id |-> 0, pulse |-> 0, status |-> "NONE",
              timestamp |-> 0]

\* repository.find_by_id: the row, or None.
find_by_id(rows, id) ==
    IF \E i \in 1..Len(rows) : rows[i].id = id
    THEN rows[CHOOSE i \in 1..Len(rows) : rows[i].id = id]
    ELSE NoReading

RECURSIVE Reverse(_)
Reverse(s) == IF s = <<>> THEN <<>> ELSE Append(Reverse(Tail(s)), Head(s))

OfDevice(rows, smart_band_id) ==
    LET Mine(row) == row.smart_band_id = smart_band_id IN SelectSeq(rows, Mine)

\* repository.find_by_device: the device's rows, newest first, at most limit.
find_by_device(rows, smart_band_id, limit) ==
    LET mine == Reverse(OfDevice(rows, smart_band_id)) IN
        SubSeq(mine, 1, IF Len(mine) < limit THEN Len(mine) ELSE limit)

RECURSIVE SumPulse(_)
SumPulse(s) == IF s = <<>> THEN 0 ELSE Head(s).pulse + SumPulse(Tail(s))

\* repository aggregate: count, minimum, maximum and (whole-number) average of
\* the device's pulses; zeros for a device without rows.
aggregate(rows, smart_band_id) ==
    LET mine == OfDevice(rows, smart_band_id)
        ps == { mine[i].pulse : i \in 1..Len(mine) } IN
        IF mine = <<>>
        THEN [count |-> 0, min |-> 0, max |-> 0, average |-> 0]
        ELSE [count |-> Len(mine),
              min |-> CHOOSE x \in ps : \A y \in ps : x <= y,
              max |-> CHOOSE x \in ps : \A y \in ps : x >= y,
              average |-> SumPulse(mine) \div Len(mine)]

\* ------------------------------------------------------- get_db_session

\* The async generator up to its yield: a session of its own is open.
GenStart(q) == [q EXCEPT !.gen = "suspended", !.sess = "open"]

\* An exception thrown in at the yield: rollback, re-raise, close.
GenThrow(q) ==
    [q EXCEPT !.gen = "finished", !.sess = "closed",
              !.log = @ \o <<"rollback", "close">>]

\* Resumed after the yield without an exception: close.
GenNext(q) ==
    [q EXCEPT !.gen = "finished", !.sess = "closed", !.log = @ \o <<"close">>]

\* aclose(): GeneratorExit is raised at the yield; it is no Exception, so the
\* except clause is passed over and the finally clause closes the session.
GenClose(q) ==
    [q EXCEPT !.gen = "finished", !.sess = "closed", !.log = @ \o <<"close">>]

\* ------------------------------------------------------------ requests

NoBody == [empty |-> TRUE]

\* A free slot.  log lists what happened in the slot's unit of work, in order:
\* "handle" (the command handler was invoked), "begin", "commit", "fail" (a
\* store operation failed), "rollback", "close".
IdleReq ==
    [op |-> "idle", pc |-> "idle", smart_band_id |-> 0, pulse |-> NoPulse,
     limit |-> 0, value |-> 0, gen |-> "none", sess |-> "none", log |-> <<>>,
     raised |-> "none", origin |-> "none", err |-> "none", reading_id |-> 0,
     status |-> 0, body |-> NoBody]

Errors == {"ValueError", "Exception"}

\* Depends(get_command_handler) / Depends(get_query_handler): the handler's
\* repository works on a session of get_db_session, which the framework
\* advances to its yield before the endpoint runs.
DependsSession(q) == GenStart(q)

\* The framework leaving the dependency when the endpoint has ended: an
\* exception that left the endpoint is thrown into the generator, otherwise
\* the generator is resumed.
DependsExit(q) ==
    [(IF q.err # "none" THEN GenThrow(q) ELSE GenNext(q)) EXCEPT !.pc = "done"]

\* record_heart_rate's except clauses: ValueError -> 400, Exception -> 500.
RecordExceptStatus(exc) == IF exc = "ValueError" THEN 400 ELSE 500

\* An exception raised inside record_heart_rate's try block at `origin`.
RecordRaise(q, exc, origin) ==
    [q EXCEPT !.raised = exc, !.origin = origin, !.err = "HTTPException",
              !.status = RecordExceptStatus(exc), !.pc = "exit"]

\* The identity find_by_id is asked for: the one handler.handle returned.
ReadBackIdLatest(rows, q) == Len(rows)
ReadBackId(rows, q) == q.reading_id

\* RecordHeartRateResponseDTO(...) built from the reading read back.
RecordResponse(reading) ==
    [id |-> reading.id, smart_band_id |-> reading.smart_band_id,
     pulse |-> reading.pulse, status |-> reading.status,
     timestamp |-> reading.timestamp]

\* HeartRateHistoryResponseDTO(...): the items and total = len(readings).
HistoryResponseCountingAll(rows, smart_band_id, readings) ==
    [smart_band_id |-> smart_band_id, readings |-> readings,
     total |-> Len(OfDevice(rows, smart_band_id))]
HistoryResponse(rows, smart_band_id, readings) ==
    [smart_band_id |-> smart_band_id, readings |-> readings,
     total |-> Len(readings)]

\* value_error_handler(exc), called with the arguments in args.  It declares
\* one parameter; called with any other number of arguments the call itself
\* raises TypeError.  What it returns is a plain dict, not a response object.
value_error_handler_as_response(args) ==
    [raised |-> "none", kind |-> "response", status |-> 200]
value_error_handler(args) ==
    IF Len(args) # 1
    THEN [raised |-> "TypeError", kind |-> "none", status |-> 0]
    ELSE [raised |-> "none", kind |-> "dict", status |-> 0]

\* The status of a request whose endpoint let exception exc escape
\* (get_heart_rate_history and get_heart_rate_statistics have no try block).
\* The exception middleware calls the handler registered for ValueError with
\* (request, exc) and then sends what it returned; an error in either step,
\* like any other exception, ends in the server-error response.
EscapedStatus(exc) ==
    IF exc = "ValueError"
    THEN LET h == value_error_handler(<<"request", exc>>) IN
             IF h.raised # "none" \/ h.kind # "response" THEN 500 ELSE h.status
    ELSE 500

\* An exception escaping an endpoint that has no try block.
Escape(q, exc, origin) ==
    [q EXCEPT !.raised = exc, !.origin = origin, !.err = exc,
              !.status = EscapedStatus(exc), !.pc = "exit"]

Serving == phase = "serving"

\* POST data-records, up to the first await: the dependency, int(pulse) and
\* the command.
RecordStart(r, S, P) ==
    /\ Serving
    /\ req[r].op = "idle"
    /\ LET q == DependsSession([IdleReq EXCEPT !.op = "record",
                                               !.smart_band_id = S, !.pulse = P])
           c == ToInt(P) IN
           req' = [req EXCEPT ![r] =
                      IF c.ok THEN [q EXCEPT !.pc = "handle", !.value = c.v]
                      ELSE RecordRaise(q, "ValueError", "convert")]
    /\ everServed' = TRUE
    /\ UNCHANGED <<DATABASE_URL, phase, startupError, closeDbRan, store, poolVars>>

\* reading_id = await handler.handle(command): the reading is built with the
\* classifier, saved and committed, and its identity returned.
RecordHandleOk(r) ==
    /\ req[r].op = "record" /\ req[r].pc = "handle"
    /\ Len(store) < MaxReadings
    /\ store' = save(store, req[r].smart_band_id, req[r].value)
    /\ req' = [req EXCEPT ![r].reading_id = store'[Len(store')].id,
                          ![r].log = @ \o <<"handle", "begin", "commit">>,
                          ![r].pc = "find"]
    /\ UNCHANGED <<DATABASE_URL, phase, startupError, closeDbRan, everServed, poolVars>>

\* handler.handle raises.
RecordHandleFail(r, exc) ==
    /\ req[r].op = "record" /\ req[r].pc = "handle"
    /\ req' = [req EXCEPT ![r] =
                  RecordRaise([req[r] EXCEPT !.log = @ \o <<"handle", "begin", "fail">>],
                              exc, "handle")]
    /\ UNCHANGED <<DATABASE_URL, phase, startupError, closeDbRan, everServed, store, poolVars>>

\* reading = await repository.find_by_id(reading_id), then the response; with
\* gone, the row is no longer there to be found.
RecordFind(r, gone) ==
    /\ req[r].op = "record" /\ req[r].pc = "find"
    /\ LET reading == IF gone THEN NoReading
                      ELSE find_by_id(store, ReadBackId(store, req[r])) IN
           req' = [req EXCEPT ![r] =
                      IF reading = NoReading
                      THEN RecordRaise(req[r], "HTTPException", "absent")
                      ELSE [req[r] EXCEPT !.status = 201,
                                          !.body = RecordResponse(reading),
                                          !.pc = "exit"]]
    /\ UNCHANGED <<DATABASE_URL, phase, startupError, closeDbRan, everServed, store, poolVars>>

\* repository.find_by_id raises.
RecordFindFail(r, exc) ==
    /\ req[r].op = "record" /\ req[r].pc = "find"
    /\ req' = [req EXCEPT ![r] =
                  RecordRaise([req[r] EXCEPT !.log = @ \o <<"fail">>], exc, "find")]
    /\ UNCHANGED <<DATABASE_URL, phase, startupError, closeDbRan, everServed, store, poolVars>>

\* GET history, up to the first await.
HistoryStart(r, S, limit) ==
    /\ Serving
    /\ req[r].op = "idle"
    /\ req' = [req EXCEPT ![r] =
                  DependsSession([IdleReq EXCEPT !.op = "history", !.pc = "query",
                                                 !.smart_band_id = S, !.limit = limit])]
    /\ everServed' = TRUE
    /\ UNCHANGED <<DATABASE_URL, phase, startupError, closeDbRan, store, poolVars>>

\* readings = await handler.get_history(query), then the response.
HistoryQuery(r) ==
    /\ req[r].op = "history" /\ req[r].pc = "query"
    /\ LET readings == find_by_device(store, req[r].smart_band_id, req[r].limit) IN
           req' = [req EXCEPT ![r].status = 200,
                              ![r].body = HistoryResponse(store, req[r].smart_band_id,
                                                          readings),
                              ![r].log = @ \o <<"begin">>,
                              ![r].pc = "exit"]
    /\ UNCHANGED <<DATABASE_URL, phase, startupError, closeDbRan, everServed, store, poolVars>>

\* GET statistics, up to the first await.
StatisticsStart(r, S) ==
    /\ Serving
    /\ req[r].op = "idle"
    /\ req' = [req EXCEPT ![r] =
                  DependsSession([IdleReq EXCEPT !.op = "statistics", !.pc = "query",
                                                 !.smart_band_id = S])]
    /\ everServed' = TRUE
    /\ UNCHANGED <<DATABASE_URL, phase, startupError, closeDbRan, store, poolVars>>

\* stats = await handler.get_statistics(query), then the response.
StatisticsQuery(r) ==
    /\ req[r].op = "statistics" /\ req[r].pc = "query"
    /\ req' = [req EXCEPT ![r].status = 200,
                          ![r].body = aggregate(store, req[r].smart_band_id),
                          ![r].log = @ \o <<"begin">>,
                          ![r].pc = "exit"]
    /\ UNCHANGED <<DATABASE_URL, phase, startupError, closeDbRan, everServed, store, poolVars>>

\* handler.get_history / handler.get_statistics raises.
QueryFail(r, exc) ==
    /\ req[r].op \in {"history", "statistics"} /\ req[r].pc = "query"
    /\ req' = [req EXCEPT ![r] =
                  Escape([req[r] EXCEPT !.log = @ \o <<"begin", "fail">>], exc, "query")]
    /\ UNCHANGED <<DATABASE_URL, phase, startupError, closeDbRan, everServed, store, poolVars>>

\* The framework leaves the session dependency of a record, history or
\* statistics request; the response is then the request's answer.
Teardown(r) ==
    /\ req[r].op \in {"record", "history", "statistics"} /\ req[r].pc = "exit"
    /\ req' = [req EXCEPT ![r] = DependsExit(req[r])]
    /\ UNCHANGED <<DATABASE_URL, phase, startupError, closeDbRan, everServed, store, poolVars>>

\* HEAD keepalive: answered before any session is asked for.
KeepaliveHead(r) ==
    /\ Serving
    /\ req[r].op = "idle"
    /\ req' = [req EXCEPT ![r] =
                  [IdleReq EXCEPT !.op = "keepalive_head", !.pc = "done", !.status = 200,
                                  !.body = [status |-> "alive"]]]
    /\ everServed' = TRUE
    /\ UNCHANGED <<DATABASE_URL, phase, startupError, closeDbRan, store, poolVars>>

\* GET keepalive: `async for session in get_db_session()` takes the first
\* session from the generator, which stays suspended at its yield.
KeepaliveStart(r) ==
    /\ Serving
    /\ req[r].op = "idle"
    /\ req' = [req EXCEPT ![r] =
                  GenStart([IdleReq EXCEPT !.op = "keepalive", !.pc = "execute"])]
    /\ everServed' = TRUE
    /\ UNCHANGED <<DATABASE_URL, phase, startupError, closeDbRan, store, poolVars>>

\* session.execute(SELECT 1) succeeds and the handler returns from inside the
\* loop: nothing resumes or closes the generator.
KeepaliveOk(r) ==
    /\ req[r].op = "keepalive" /\ req[r].pc = "execute"
    /\ req' = [req EXCEPT ![r].status = 200,
                          ![r].body = [status |-> "alive", database |-> "connected"],
                          ![r].log = @ \o <<"begin">>,
                          ![r].pc = "done"]
    /\ UNCHANGED <<DATABASE_URL, phase, startupError, closeDbRan, everServed, store, poolVars>>

\* session.execute raises in the loop body: the exception leaves the loop
\* (it is not thrown into the generator) and the handler's except clause
\* answers with status "error".
KeepaliveFail(r, exc) ==
    /\ req[r].op = "keepalive" /\ req[r].pc = "execute"
    /\ req' = [req EXCEPT ![r].raised = exc,
                          ![r].origin = "execute",
                          ![r].status = 200,
                          ![r].body = [status |-> "error", database |-> "error"],
                          ![r].log = @ \o <<"begin", "fail">>,
                          ![r].pc = "done"]
    /\ UNCHANGED <<DATABASE_URL, phase, startupError, closeDbRan, everServed, store, poolVars>>

\* The interpreter finalizes the generator keepalive left suspended, at a
\* time of its own choosing: the event loop's hook runs aclose().
Finalize(r) ==
    /\ req[r].op = "keepalive" /\ req[r].pc = "done" /\ req[r].gen = "suspended"
    /\ req' = [req EXCEPT ![r] = GenClose(req[r])]
    /\ UNCHANGED <<DATABASE_URL, phase, startupError, closeDbRan, everServed, store, poolVars>>

\* The answer has been sent and nothing of the request is left: the slot is
\* free for the next request.
Retire(r) ==
    /\ req[r].pc = "done" /\ req[r].gen # "suspended"
    /\ req' = [req EXCEPT ![r] = IdleReq]
    /\ UNCHANGED <<DATABASE_URL, phase, startupError, closeDbRan, everServed, store, poolVars>>

\* -------------------------------------------------- startup and shutdown

\* Importing database_configuration: the module body checks DATABASE_URL.
ImportConfiguration ==
    /\ phase = "import"
    /\ startupError' = ConfigError(DATABASE_URL)
    /\ phase' = IF startupError' = "none" THEN "imported" ELSE "aborted"
    /\ UNCHANGED <<DATABASE_URL, closeDbRan, everServed, store, req, poolVars>>

\* lifespan up to its yield: the phase after init_db has ended with `error`.
\* An error of init_db is logged and raised again.
lifespan_startup_swallowing(error) == "serving"
lifespan_startup(error) == IF error = "none" THEN "serving" ELSE "aborted"

\* The server enters the lifespan: init_db creates the tables, or fails.
Startup(error) ==
    /\ phase = "imported"
    /\ startupError' = error
    /\ phase' = lifespan_startup(error)
    /\ UNCHANGED <<DATABASE_URL, closeDbRan, everServed, store, req, poolVars>>

\* lifespan after its yield, once no request is in flight: close_db.
Shutdown ==
    /\ Serving
    /\ \A r \in Slots : req[r].op = "idle"
    /\ phase' = "stopped"
    /\ closeDbRan' = TRUE
    /\ UNCHANGED <<DATABASE_URL, startupError, everServed, store, req, poolVars>>

\* --------------------------------------------------------- specification

Limits == {0, SmallLimit, default_limit}

Init ==
    /\ DATABASE_URL \in Urls \ {DirectUrl}
    /\ phase = "import"
    /\ startupError = "none"
    /\ closeDbRan = FALSE
    /\ everServed = FALSE
    /\ store = <<>>
    /\ req = [r \in Slots |-> IdleReq]
    /\ qsize = 0
    /\ overflow = 0
    /\ conn = [w \in Workers |-> "idle"]
    /\ waited = [w \in Workers |-> 0]

\* One step of the service, the requests being served in `slots`.
Step(slots) ==
    \/ ImportConfiguration
    \/ \E error \in {"none", "InitError"} : Startup(error)
    \/ Shutdown
    \/ \E r \in slots, S \in Devices, P \in Pulses : RecordStart(r, S, P)
    \/ \E r \in slots : RecordHandleOk(r)
    \/ \E r \in slots, exc \in Errors : RecordHandleFail(r, exc)
    \/ \E r \in slots, gone \in BOOLEAN : RecordFind(r, gone)
    \/ \E r \in slots, exc \in Errors : RecordFindFail(r, exc)
    \/ \E r \in slots, S \in Devices, limit \in Limits : HistoryStart(r, S, limit)
    \/ \E r \in slots : HistoryQuery(r)
    \/ \E r \in slots, S \in Devices : StatisticsStart(r, S)
    \/ \E r \in slots : StatisticsQuery(r)
    \/ \E r \in slots, exc \in Errors : QueryFail(r, exc)
    \/ \E r \in slots : Teardown(r)
    \/ \E r \in slots : KeepaliveHead(r)
    \/ \E r \in slots : KeepaliveStart(r)
    \/ \E r \in slots : KeepaliveOk(r)
    \/ \E r \in slots, exc \in Errors : KeepaliveFail(r, exc)
    \/ \E r \in slots : Finalize(r)
    \/ \E r \in slots : Retire(r)

Next == Step(Slots)

\* The service with requests arriving one after the other.
SoloNext == Step({1})

Spec == Init /\ [][Next]_vars

SoloSpec == Init /\ [][SoloNext]_vars

\* The service receiving record requests with integer pulses, in every slot
\* at once, against a store whose operations do not raise (a row may still be
\* missing when it is read back).
RoundTripNext ==
    \/ ImportConfiguration
    \/ \E error \in {"none", "InitError"} : Startup(error)
    \/ Shutdown
    \/ \E r \in Slots, S \in Devices, P \in NumericPulses : RecordStart(r, S, P)
    \/ \E r \in Slots : RecordHandleOk(r)
    \/ \E r \in Slots, gone \in BOOLEAN : RecordFind(r, gone)
    \/ \E r \in Slots : Teardown(r)
    \/ \E r \in Slots : Retire(r)

RoundTripSpec == Init /\ [][RoundTripNext]_vars

\* ------------------------------------------------------ the connection pool

\* The engine's pool is a QueuePool built from pool_config: at most pool_size
\* idle connections are kept in its queue, and overflow counts the connections
\* that exist beyond pool_size (it starts at -pool_size: none exists).

\* The configuration the engine was created with.
engine_pool == pool_config(DATABASE_URL)

\* QueuePool.checkedout()
checkedout == engine_pool.pool_size - qsize + overflow

Holding == Cardinality({w \in Workers : conn[w] = "holding"})

\* Connections checked out by requests that are not followed one by one.
Others == checkedout - Holding

\* A checkout that finds a connection: an idle one from the queue, else a new
\* one while overflow is below max_overflow.
CanGet == qsize > 0 \/ overflow < engine_pool.max_overflow
Get ==
    IF qsize > 0
    THEN qsize' = qsize - 1 /\ overflow' = overflow
    ELSE qsize' = qsize /\ overflow' = overflow + 1

\* A connection handed back: into the queue, or closed when the queue is full.
Put ==
    IF qsize < engine_pool.pool_size
    THEN qsize' = qsize + 1 /\ overflow' = overflow
    ELSE qsize' = qsize /\ overflow' = overflow - 1

\* A followed request asks for a connection: it gets one, or starts waiting.
Checkout(w) ==
    /\ conn[w] = "idle"
    /\ IF CanGet
       THEN Get /\ conn' = [conn EXCEPT ![w] = "holding"]
       ELSE conn' = [conn EXCEPT ![w] = "waiting"] /\ UNCHANGED <<qsize, overflow>>
    /\ waited' = [waited EXCEPT ![w] = 0]
    /\ UNCHANGED appVars

\* A waiting request is handed a connection that came back to the queue.
WaitGet(w) ==
    /\ conn[w] = "waiting"
    /\ qsize > 0
    /\ qsize' = qsize - 1
    /\ conn' = [conn EXCEPT ![w] = "holding"]
    /\ UNCHANGED <<overflow, waited, appVars>>

\* Time passes for a waiting request.
Tick(w) ==
    /\ conn[w] = "waiting"
    /\ waited[w] < engine_pool.pool_timeout
    /\ waited' = [waited EXCEPT ![w] = @ + TickSeconds]
    /\ UNCHANGED <<qsize, overflow, conn, appVars>>

\* pool_timeout seconds have passed: the checkout raises TimeoutError.
Expire(w) ==
    /\ conn[w] = "waiting"
    /\ waited[w] >= engine_pool.pool_timeout
    /\ conn' = [conn EXCEPT ![w] = "timeout"]
    /\ UNCHANGED <<qsize, overflow, waited, appVars>>

\* A followed request releases its connection.
Release(w) ==
    /\ conn[w] = "holding"
    /\ Put
    /\ conn' = [conn EXCEPT ![w] = "idle"]
    /\ UNCHANGED <<waited, appVars>>

\* A request whose checkout timed out has been answered with the error.
GiveUp(w) ==
    /\ conn[w] = "timeout"
    /\ conn' = [conn EXCEPT ![w] = "idle"]
    /\ waited' = [waited EXCEPT ![w] = 0]
    /\ UNCHANGED <<qsize, overflow, appVars>>

\* Another request checks a connection out.
OtherCheckout ==
    /\ CanGet
    /\ Get
    /\ UNCHANGED <<conn, waited, appVars>>

\* Another request releases its connection.
OtherRelease ==
    /\ Others > 0
    /\ Put
    /\ UNCHANGED <<conn, waited, appVars>>

PoolInit ==
    /\ DATABASE_URL \in {PoolerUrl, DirectUrl}
    /\ phase = "serving"
    /\ startupError = "none"
    /\ closeDbRan = FALSE
    /\ everServed = FALSE
    /\ store = <<>>
    /\ req = [r \in Slots |-> IdleReq]
    /\ qsize = 0
    /\ overflow = 0 - engine_pool.pool_size
    /\ conn = [w \in Workers |-> "idle"]
    /\ waited = [w \in Workers |-> 0]

PoolNext ==
    \/ \E w \in Workers : Checkout(w)
    \/ \E w \in Workers : WaitGet(w)
    \/ \E w \in Workers : Tick(w)
    \/ \E w \in Workers : Expire(w)
    \/ \E w \in Workers : Release(w)
    \/ \E w \in Workers : GiveUp(w)
    \/ OtherCheckout
    \/ OtherRelease

\* The clock of a waiting checkout runs and its timeout fires: the event loop
\* owes both to every waiting request.
PoolSpec ==
    /\ PoolInit
    /\ [][PoolNext]_vars
    /\ \A w \in Workers : WF_vars(Tick(w)) /\ WF_vars(Expire(w))

\* ------------------------------------------------------------ properties

Events(q) == { q.log[i] : i \in 1..Len(q.log) }

\* Event a happens in q's unit of work and event b after it.
Then(q, a, b) ==
    \E i \in 1..Len(q.log) : \E j \in (i + 1)..Len(q.log) :
        q.log[i] = a /\ q.log[j] = b

\* C1: when a request has been answered, the session of its unit of work has
\* been released, whatever the exit path.
C1_SessionReleasedWhenDone ==
    \A r \in Slots : req[r].pc = "done" => req[r].sess # "open"

\* C2: when a request whose unit of work had a store operation fail has been
\* answered, the transaction was rolled back after the failure.
C2_RollbackBeforeFailureAnswered ==
    \A r \in Slots :
        (req[r].pc = "done" /\ "fail" \in Events(req[r])) => Then(req[r], "fail", "rollback")

\* C3: a session that was used and closed without any failure in its unit of
\* work was committed before it was closed.
C3_CommitBeforeClose ==
    \A r \in Slots :
        (req[r].sess = "closed" /\ req[r].raised = "none" /\ "begin" \in Events(req[r]))
            => Then(req[r], "commit", "close")

\* C4: every step of a record request whose pulse is not an integer literal
\* leaves the store as it is, has not invoked the command handler and has the
\* request answered 400.
C4_NonNumericPulseRejected ==
    [][\A r \in Slots :
          (req'[r] # req[r] /\ req'[r].op = "record" /\ req'[r].pulse \in NonNumericPulses)
              => /\ store' = store
                 /\ req'[r].status = 400
                 /\ "handle" \notin Events(req'[r])
                 /\ req'[r].reading_id = 0]_vars

C4_Witness ==
    \E r \in Slots :
        /\ req[r].op = "record" /\ req[r].pc = "done"
        /\ req[r].pulse = StrPulse(<<"a", "b", "c">>)
        /\ req[r].status = 400

\* C5: a record request answers 500 whenever handler.handle or find_by_id
\* raised, and answers 400 only when int(pulse) raised.
C5_PersistenceFailureIsInternal ==
    \A r \in Slots :
        (req[r].op = "record" /\ req[r].pc = "done")
            => /\ req[r].origin \in {"handle", "find"} => req[r].status = 500
               /\ req[r].status = 400 => req[r].origin = "convert"

\* C6: a record request that answers 201 returns the row stored under the
\* identity its own handler.handle returned, with the request's device, the
\* integer of its pulse and that integer's status band; a request whose
\* read-back found nothing answers 500.
C6_RoundTrip ==
    \A r \in Slots :
        req[r].op = "record" =>
            /\ req[r].status = 201 =>
                  /\ req[r].body.id = req[r].reading_id
                  /\ req[r].reading_id \in 1..Len(store)
                  /\ req[r].body = RecordResponse(store[req[r].reading_id])
                  /\ req[r].body.smart_band_id = req[r].smart_band_id
                  /\ req[r].body.pulse = ToInt(req[r].pulse).v
                  /\ req[r].body.status = classify(ToInt(req[r].pulse).v)
            /\ req[r].origin = "absent" => req[r].status = 500

\* Two record requests in flight together, both answered 201.
C6_Witness ==
    \E r1, r2 \in Slots :
        /\ r1 # r2
        /\ req[r1].op = "record" /\ req[r1].status = 201 /\ req[r1].pc = "done"
        /\ req[r2].op = "record" /\ req[r2].status = 201 /\ req[r2].pc = "done"
        /\ req[r1].pulse = StrPulse(<<" ", "1", "5", "0">>)
        /\ req[r1].body.status = "HIGH"

C9_StartupGate ==
    /\ (phase \in {"serving", "stopped"} \/ everServed \/ \E r \in Slots : req[r].op # "idle")
          => /\ ~UrlMissing(DATABASE_URL)
             /\ UrlHasAsyncDriver(DATABASE_URL)
             /\ startupError = "none"
    /\ (UrlMissing(DATABASE_URL) \/ ~UrlHasAsyncDriver(DATABASE_URL))
          => phase \in {"import", "aborted"}
    /\ startupError # "none" => phase = "aborted"
    /\ phase = "aborted"
          => /\ startupError # "none"
             /\ ~everServed
             /\ ~closeDbRan
             /\ \A r \in Slots : req[r].op = "idle"

\* init_db failed under a good connection string.
C9_Witness ==
    /\ phase = "aborted"
    /\ startupError = "InitError"
    /\ UrlHasAsyncDriver(DATABASE_URL)

\* pool_size + max_overflow of the two configurations, as the claim states them.
ClaimedCapacity == IF is_pooler(DATABASE_URL) THEN 3 + 5 ELSE 5 + 10

\* C10: the connections checked out never exceed pool_size + max_overflow
\* (8 through the pooler, 15 direct), and a request waiting for a connection
\* in time holds one or has failed with the pool's timeout.
C10_PoolBoundedAndTimely ==
    /\ [](checkedout <= ClaimedCapacity)
    /\ \A w \in Workers :
          (conn[w] = "waiting") ~> (conn[w] \in {"holding", "timeout"})

\* A request timed out with every connection of the pool checked out.
C10_Witness ==
    \E w \in Workers :
        /\ conn[w] = "timeout"
        /\ waited[w] >= pool_timeout
        /\ checkedout = ClaimedCapacity

====
